---- MODULE Spec2Model ----
(***************************************************************************)
(* The record / transcribe lifecycle of the two programs of the            *)
(* repository, as one state machine:                                       *)
(*                                                                         *)
(*   program = "app"      class AudioRecorderApp: one toggle button, a     *)
(*                        worker thread per stop, an update_queue drained  *)
(*                        by update_loop on the Tk thread.  The class is   *)
(*                        in src/old_tkinter_transcriber.py.               *)
(*   program = "script"   module level functions, Start and Stop buttons,  *)
(*                        a transcribe_audio thread per stop, root.after   *)
(*                        callbacks.  They are in src/transcriber.py.      *)
(*                                                                         *)
(* The claims cite the class as src/transcriber.py and the functions as    *)
(* src/old_tkinter_transcriber.py; the symbols and line numbers they give  *)
(* identify the program meant, and each claim is stated on that program.   *)
(*                                                                         *)
(* Init chooses the program; a behaviour is a run of that one program.     *)
(* Variables of the same role are shared by the two programs (audio_data   *)
(* is the script's audio_frames, update_queue is the script's queue of     *)
(* root.after(0, ...) callbacks).                                          *)
(*                                                                         *)
(* Threads: handlers of the Tk thread (button commands, update_loop, after *)
(* callbacks) run one after the other, except that Tk goes on calling      *)
(* handlers while messagebox.showerror waits for the user, who alone ends  *)
(* that wait.  The steps of the worker threads, of the initialize thread   *)
(* and of the audio callback interleave with each other and with the steps *)
(* of the Tk thread.  In the class, start_recording and stop_recording are *)
(* a step up to their first queue.put and a step from their second,        *)
(* update_loop is a step per item it takes, the initialize thread is a     *)
(* step per statement, and a worker thread is a step per statement that    *)
(* reads or writes a file, reads the clock or puts an item; opening the    *)
(* audio file, counting the call and sending the request are one step.  In *)
(* the script, stop_recording is a step up to wave.open and a step from    *)
(* writeframes, and a transcribe_audio thread is a step per statement that *)
(* reads or writes a file, reads the clock or calls root.after.  In both   *)
(* programs open(..., 'w') and json.dump are two steps, and the locals of  *)
(* save_to_history and save_transaction are gone when the function returns *)
(* or raises.                                                              *)
(* Library calls that the claims name as failure points (InputStream       *)
(* creation and start, np.concatenate, the audio file write, the remote    *)
(* call, pyperclip.copy, the JSON loads and writes) choose their outcome   *)
(* nondeterministically; a write that fails after its file was opened for  *)
(* writing leaves the file truncated.  recording.stop()/close() do not     *)
(* raise (sounddevice ignores their errors by default).                    *)
(* Time is in milliseconds.  A float is the exact rational <<num, den>> it *)
(* stands for: the program's float results are these values up to          *)
(* rounding, and the program never compares two floats.                    *)
(***************************************************************************)
EXTENDS Integers, Sequences, FiniteSets, TLC

VARIABLES
    program,              \* which of the two programs runs
    now,                  \* wall clock (time.time() / datetime.now()), ms
    state,                \* app: self.state
    last_click_time,      \* app: self.last_click_time, ms
    client,               \* app: self.client ("None" until initialize)
    init_pc,              \* app: statements the initialize thread has run
    recording,            \* the stream self.recording / recording refers to
    streams,              \* number of sd.InputStream(...) calls so far
    unclosed,             \* streams no longer referenced and never closed
    audio_data,           \* capture buffer (the script: audio_frames)
    recording_start_time, \* the script: recording_start_time, ms
    update_queue,         \* pending Tk-thread work (queue.Queue / after(0))
    inLoop,               \* app: the Tk thread is inside update_loop
    handler,              \* app: the handler the Tk thread has not finished
    scheduled,            \* app: update_loop will be called again
    writing,              \* script: the Tk thread is inside stop_recording,
                          \* between opening AUDIO_FILE and writing it
    stop_duration,        \* script: the local duration of that call
    timers,               \* app: pending master.after(1000, ...) calls
    threads,              \* worker threads, in spawn order
    audio_file,           \* content of AUDIO_FILE
    history_file,         \* content of HISTORY_FILE
    transactions_file,    \* content of TRANSACTIONS_FILE
    api_call_count,       \* app: self.api_call_count
    buttons,              \* toggle_button / start_button, stop_button
    status_label,         \* text of the status label
    transcription_box,    \* text of the transcription box
    history_box,          \* rendered lines of the history box
    cost_label,           \* totals shown by the cost label
    stops                 \* number of stop intents accepted so far

vars == <<program, handler, now, state, last_click_time, client, init_pc,
          recording, streams, unclosed, audio_data, recording_start_time,
          update_queue, inLoop, scheduled, writing, stop_duration, timers,
          threads, audio_file, history_file, transactions_file,
          api_call_count, buttons, status_label, transcription_box,
          history_box, cost_label, stops>>

(***************************************************************************)
(* Bounds of the model.                                                    *)
(***************************************************************************)
\* sd.InputStream(...) calls in one run (so also cycles and threads)
MaxStreams == 2
\* sample blocks the audio callback delivers to one recording
MaxBlocks == 1
\* frames in one sample block: 1..MaxBlockLen
MaxBlockLen == 1
\* clock advances in one run, each of TickMs milliseconds
MaxTicks == 1
\* clock advances in one long run of the class
MaxLongTicks == 2
\* check_state items waiting in update_queue at one time
MaxPendingChecks == 1

(***************************************************************************)
(* Program constants.                                                      *)
(***************************************************************************)
SAMPLE_RATE == 44100
\* click_cooldown = 0.5 s, in milliseconds
click_cooldown == 500
\* one clock advance is one cooldown long
TickMs == click_cooldown
\* COST_PER_MINUTE = 0.006 = COST_PER_MINUTE_MILLI / 1000
COST_PER_MINUTE_MILLI == 6

\* the clock's value when the program starts (time.time() is far beyond the
\* cooldown, so the first click always passes it)
StartOfTime == 2 * click_cooldown

(***************************************************************************)
(* Rationals for the float arithmetic.                                     *)
(***************************************************************************)
RECURSIVE GCD(_, _)
GCD(a, b) == IF b = 0 THEN a ELSE GCD(b, a % b)

Reduce(q) ==
    LET g == GCD(q[1], q[2])
    IN  IF g = 0 THEN q ELSE <<q[1] \div g, q[2] \div g>>

RatAdd(p, q) ==
    LET g == GCD(p[2], q[2])
    IN  Reduce(<<p[1] * (q[2] \div g) + q[1] * (p[2] \div g),
                 (p[2] \div g) * q[2]>>)

RatMul(p, q) ==
    LET a == Reduce(<<p[1], q[2]>>)
        b == Reduce(<<q[1], p[2]>>)
    IN  Reduce(<<a[1] * b[1], a[2] * b[2]>>)

COST_PER_MINUTE == <<COST_PER_MINUTE_MILLI, 1000>>

(***************************************************************************)
(* Audio data.  A sample block is [src, seq, n]: delivered by stream src   *)
(* as its seq-th block, n frames long.  np.concatenate(blocks, axis=0)     *)
(* is the sequence of the blocks' frames, a frame being <<src, seq>>.      *)
(***************************************************************************)
BlockLens == 1..MaxBlockLen

RECURSIVE Frames(_, _)
Frames(f, n) == IF n = 0 THEN <<>> ELSE <<f>> \o Frames(f, n - 1)

RECURSIVE Concatenate(_)
Concatenate(blocks) ==
    IF blocks = <<>> THEN <<>>
    ELSE Frames(<<Head(blocks).src, Head(blocks).seq>>, Head(blocks).n)
         \o Concatenate(Tail(blocks))

\* AUDIO_FILE: missing, or holding the frames of a waveform
NoAudioFile == [exists |-> FALSE, frames |-> <<>>]
AudioFile(wav) == [exists |-> TRUE, frames |-> wav]

\* AUDIO_FILE opened for writing (wave.open(..., 'wb'), sf.write) and not
\* written yet, or left so by a failed write: it exists and holds no frame
TruncatedAudioFile == [exists |-> TRUE, frames |-> <<>>]

\* the text the remote service returns for an uploaded waveform: a black
\* box, determined by what was uploaded
Transcribe(wav) == <<"text of", wav>>

(***************************************************************************)
(* The two JSON files.  A file is absent, a list of entries, or malformed. *)
(***************************************************************************)
Absent == [kind |-> "absent", entries |-> <<>>]
\* not a JSON document: also the empty file that open(..., 'w') leaves until
\* json.dump has written, and what a failed json.dump leaves
Malformed == [kind |-> "malformed", entries |-> <<>>]
Stored(es) == [kind |-> "list", entries |-> es]

\* the file after json.dump(es, f) returned.  f was opened, and the file
\* emptied, before: if the file holds a list now, another thread opened and
\* dumped in between, and what this dump leaves depends on the lengths of
\* the two documents (the longer one's tail stays behind the shorter one)
Dumped(file, es) ==
    IF file.kind = "list" THEN {Stored(es), Malformed} ELSE {Stored(es)}

\* the k-th entry written by an earlier version of the program: no duration
LegacyEntry(k) == [timestamp |-> 0, transcription |-> <<"legacy", k>>]

\* a history file that an earlier version of the program wrote
LegacyHistory == Stored(<<LegacyEntry(1), LegacyEntry(2)>>)

\* strftime("%Y-%m-%d %H:%M:%S"): the clock cut to whole seconds
Timestamp(t) == t \div 1000

\* load_history / load_transactions: [] when the file does not exist,
\* json.load raises on a malformed file
\* a load that answers a malformed file with the empty list
MutLoadRaises(file) == FALSE

LoadRaises(file) == file.kind = "malformed"
Load(file) == IF file.kind = "list" THEN file.entries ELSE <<>>

HistoryEntry(t, duration, transcription) ==
    [timestamp |-> Timestamp(t), duration |-> duration,
     transcription |-> transcription]

\* a save_transaction that stores the duration as the cost
MutTransactionEntry(t, duration) ==
    [timestamp |-> Timestamp(t), duration |-> duration, cost |-> duration]

TransactionEntry(t, duration) ==
    [timestamp |-> Timestamp(t), duration |-> duration,
     cost |-> RatMul(duration, COST_PER_MINUTE)]

\* sum(transaction[field] for transaction in transactions)
RECURSIVE SumField(_, _)
SumField(es, field) ==
    IF es = <<>> THEN <<0, 1>>
    ELSE RatAdd(Head(es)[field], SumField(Tail(es), field))

\* calculate_totals / update_cost_display: (total_time, total_cost)
Totals(file) ==
    [total_time |-> SumField(Load(file), "duration"),
     total_cost |-> SumField(Load(file), "cost")]

\* one line of the history box
RenderEntry(e) ==
    [timestamp |-> e.timestamp,
     duration_str |-> IF "duration" \in DOMAIN e THEN <<"min", e.duration>>
                      ELSE <<"N/A">>,
     transcription |-> e.transcription]

\* a display loop over history instead of reversed(history)
RECURSIVE MutRenderHistory(_)
MutRenderHistory(es) ==
    IF es = <<>> THEN <<>>
    ELSE <<RenderEntry(Head(es))>> \o MutRenderHistory(Tail(es))

\* for entry in reversed(history): insert at END
RECURSIVE RenderHistory(_)
RenderHistory(es) ==
    IF es = <<>> THEN <<>>
    ELSE RenderHistory(Tail(es)) \o <<RenderEntry(Head(es))>>

(***************************************************************************)
(* Initial state: the state after construction (AudioRecorderApp.__init__  *)
(* up to the first mainloop iteration; the module body of the script).     *)
(* the script renders the history and the totals at start-up, outside any  *)
(* try: with a malformed file it never reaches mainloop, so its runs start *)
(* from well-formed files.                                                 *)
(***************************************************************************)
Item(method, args) == [method |-> method, args |-> args]

\* no stop_recording call of the script is in progress
NoDuration == <<0, 1>>

ZeroTotals == [total_time |-> <<0, 1>>, total_cost |-> <<0, 1>>]

Init ==
    /\ program \in {"app", "script"}
    /\ now = StartOfTime
    /\ state = "ready"
    /\ last_click_time = 0
    /\ client = IF program = "app" THEN "None" ELSE "OpenAI"
    /\ init_pc = 0
    /\ recording = "None"
    /\ streams = 0
    /\ unclosed = 0
    /\ audio_data = <<>>
    /\ recording_start_time = 0
    /\ update_queue = <<>>
    /\ inLoop = FALSE
    /\ handler = "none"
    /\ scheduled = (program = "app")
    /\ writing = FALSE
    /\ stop_duration = NoDuration
    /\ timers = 0
    /\ threads = <<>>
    /\ audio_file = NoAudioFile
    /\ history_file \in
          IF program = "app"
          THEN {Absent, Malformed, LegacyHistory}
          ELSE {LegacyHistory}
    /\ transactions_file \in
          IF program = "app" THEN {Absent, Malformed} ELSE {Absent}
    /\ api_call_count = 0
    /\ buttons =
          IF program = "app"
          THEN [toggle |-> [text |-> "Record", style |-> "Record.TButton",
                            state |-> "normal"]]
          ELSE [start |-> "normal", stop |-> "disabled"]
    /\ status_label = "Not recording"
    /\ transcription_box = <<>>
    /\ history_box =
          IF program = "app" THEN <<>>
          ELSE RenderHistory(Load(history_file))
    /\ cost_label =
          IF program = "app" THEN ZeroTotals
          ELSE Totals(transactions_file)
    /\ stops = 0

(***************************************************************************)
(* Shared steps.                                                           *)
(***************************************************************************)
\* The clock advances, at most ticks times in a run.  It is advanced where
\* the program measures a difference of times: in the app by one cooldown
\* after a click that passed the cooldown test, in the script by one tick
\* between the start and the stop of a recording.
ClockReference ==
    IF program = "app" THEN last_click_time ELSE recording_start_time

Advance(ticks) ==
    /\ now + TickMs <= StartOfTime + TickMs * ticks
    /\ now + TickMs <= ClockReference + TickMs
    /\ program = "script" => recording = "active"
    /\ now' = now + TickMs
    /\ UNCHANGED <<program, init_pc, handler, scheduled, writing,
                   stop_duration, state, last_click_time, client, recording,
                   streams, unclosed, audio_data, recording_start_time,
                   update_queue, inLoop, timers, threads, audio_file,
                   history_file, transactions_file, api_call_count, buttons,
                   status_label, transcription_box, history_box, cost_label,
                   stops>>

\* the clock of a run
Tick == Advance(MaxTicks)

\* the clock of a long run of the class
LongTick == Advance(MaxLongTicks)

\* audio_callback, on the audio thread of the started stream:
\* audio_data.append(indata.copy())
audio_callback ==
    /\ recording = "active"
    /\ Len(audio_data) < MaxBlocks
    /\ \E n \in BlockLens :
          audio_data' = Append(audio_data,
                               [src |-> streams, seq |-> Len(audio_data) + 1,
                                n |-> n])
    /\ UNCHANGED <<program, init_pc, handler, scheduled, writing,
                   stop_duration, now, state, last_click_time, client,
                   recording, streams, unclosed, recording_start_time,
                   update_queue, inLoop, timers, threads, audio_file,
                   history_file, transactions_file, api_call_count, buttons,
                   status_label, transcription_box, history_box, cost_label,
                   stops>>

\* what sd.InputStream(...) followed by recording.start() can do; a run
\* calls start_recording at most MaxStreams times
StreamOutcomes ==
    IF streams < MaxStreams THEN {"ok", "create_raises", "start_raises"}
    ELSE {}

\* "recording = sd.InputStream(...)": the variable now refers to the new
\* stream; a stream it referred to before and that was never closed is lost
Rebind(status) ==
    /\ recording' = status
    /\ unclosed' = unclosed + (IF recording \in {"created", "active"}
                               THEN 1 ELSE 0)

(***************************************************************************)
(* src/old_tkinter_transcriber.py: the Tk-thread handlers.                 *)
(***************************************************************************)
\* a thread just started by threading.Thread(target=self.process_audio)
NewWorker ==
    [pc |-> "concatenate", audio |-> <<>>, duration |-> <<0, 1>>,
     upload |-> <<>>, text |-> <<>>, loaded |-> <<>>, puts |-> 0,
     log |-> <<>>]

\* start_recording, lines 142-147: empty the buffer, create and start the
\* stream, put the status item.  An exception leaves the handler where it
\* is raised.
start_recording ==
    /\ audio_data' = <<>>
    /\ streams' = streams + 1
    /\ \E outcome \in StreamOutcomes :
          CASE outcome = "create_raises" ->
                 UNCHANGED <<recording, unclosed, update_queue, handler>>
            [] outcome = "start_raises" ->
                 /\ Rebind("created")
                 /\ UNCHANGED <<update_queue, handler>>
            [] outcome = "ok" ->
                 /\ Rebind("active")
                 /\ update_queue' =
                       Append(update_queue,
                              Item("update_status", <<"Recording...">>))
                 /\ handler' = "start_recording"

\* stop_recording, lines 154-159: stop and close the stream, put the status
\* item
stop_recording ==
    /\ recording' = IF recording # "None" THEN "closed" ELSE recording
    /\ update_queue' =
          Append(update_queue, Item("update_status", <<"Processing...">>))
    /\ handler' = "stop_recording"
    /\ UNCHANGED <<audio_data, streams, unclosed>>

\* a toggle_recording without the cooldown test
MutInCooldown == FALSE

\* the cooldown test of toggle_recording (line 129)
InCooldown == now - last_click_time < click_cooldown

\* Tk is between two handlers of the main window
TkIdle == handler = "none" /\ ~inLoop

\* Tk calls bound event handlers and due after callbacks: between two
\* handlers, and inside messagebox.showerror while the dialog is open (the
\* dialog is modal: a click does not reach toggle_button)
TkDispatches == TkIdle \/ handler = "show_error"

\* toggle_recording (lines 127-140), the command of toggle_button: Tk runs
\* it on a click only while the button is not disabled.  It runs up to the
\* first queue.put of start_recording or stop_recording.
toggle_recording ==
    /\ program = "app"
    /\ TkIdle
    /\ buttons.toggle.state = "normal"
    /\ IF InCooldown
       THEN UNCHANGED vars
       ELSE /\ last_click_time' = now
            /\ IF state = "recording" THEN stop_recording
               ELSE IF state = "ready" THEN start_recording
               ELSE UNCHANGED <<recording, streams, unclosed, audio_data,
                                update_queue, handler>>
            /\ UNCHANGED <<program, init_pc, scheduled, writing, stop_duration,
                           now, state, client, recording_start_time, inLoop,
                           timers, threads, audio_file, history_file,
                           transactions_file, api_call_count, buttons,
                           status_label, transcription_box, history_box,
                           cost_label, stops>>

\* start_recording, lines 148-149: put the button item, set the state
start_recording_end ==
    /\ program = "app"
    /\ handler = "start_recording"
    /\ update_queue' =
          Append(update_queue,
                 Item("update_button", <<"Stop", "Stop.TButton", "normal">>))
    /\ state' = "recording"
    /\ handler' = "none"
    /\ UNCHANGED <<program, init_pc, scheduled, writing, stop_duration, now,
                   last_click_time, client, recording, streams, unclosed,
                   audio_data, recording_start_time, inLoop, timers, threads,
                   audio_file, history_file, transactions_file, api_call_count,
                   buttons, status_label, transcription_box, history_box,
                   cost_label, stops>>

\* stop_recording, lines 160-162: put the button item, set the state, start
\* the worker thread
stop_recording_end ==
    /\ program = "app"
    /\ handler = "stop_recording"
    /\ update_queue' =
          Append(update_queue,
                 Item("update_button",
                      <<"Record", "Record.TButton", "disabled">>))
    /\ state' = "processing"
    /\ threads' = Append(threads, NewWorker)
    /\ stops' = stops + 1
    /\ handler' = "none"
    /\ UNCHANGED <<program, init_pc, scheduled, writing, stop_duration, now,
                   last_click_time, client, recording, streams, unclosed,
                   audio_data, recording_start_time, inLoop, timers,
                   audio_file, history_file, transactions_file, api_call_count,
                   buttons, status_label, transcription_box, history_box,
                   cost_label>>

\* on_focus_in (lines 111-113), bound to <FocusIn>
on_focus_in ==
    /\ program = "app"
    /\ TkDispatches
    /\ Cardinality({k \in 1..Len(update_queue) :
                      update_queue[k].method = "check_state"})
          < MaxPendingChecks
    /\ update_queue' = Append(update_queue, Item("check_state", <<>>))
    /\ UNCHANGED <<program, init_pc, handler, scheduled, writing,
                   stop_duration, now, state, last_click_time, client,
                   recording, streams, unclosed, audio_data,
                   recording_start_time, inLoop, timers, threads, audio_file,
                   history_file, transactions_file, api_call_count, buttons,
                   status_label, transcription_box, history_box, cost_label,
                   stops>>

\* the callback of master.after(1000, ...) (line 191) fires
enable_timer ==
    /\ program = "app"
    /\ TkDispatches
    /\ timers > 0
    /\ timers' = timers - 1
    /\ update_queue' = Append(update_queue, Item("enable_button", <<>>))
    /\ UNCHANGED <<program, init_pc, handler, scheduled, writing,
                   stop_duration, now, state, last_click_time, client,
                   recording, streams, unclosed, audio_data,
                   recording_start_time, inLoop, threads, audio_file,
                   history_file, transactions_file, api_call_count, buttons,
                   status_label, transcription_box, history_box, cost_label,
                   stops>>

\* the items initialize puts (lines 93-95)
InitializeItems ==
    <<Item("update_history_display", <<>>),
      Item("update_cost_display", <<>>),
      Item("update_status", <<"Ready">>)>>

\* initialize (lines 91-95), on its own thread, a statement per step: the
\* client (line 92), then the three puts in program order (lines 93-95)
initialize ==
    /\ program = "app"
    /\ init_pc <= Len(InitializeItems)
    /\ init_pc' = init_pc + 1
    /\ IF init_pc = 0
       THEN /\ client' = "OpenAI"
            /\ UNCHANGED update_queue
       ELSE /\ update_queue' = Append(update_queue, InitializeItems[init_pc])
            /\ UNCHANGED client
    /\ UNCHANGED <<program, handler, scheduled, writing, stop_duration, now,
                   state, last_click_time, recording, streams, unclosed,
                   audio_data, recording_start_time, inLoop, timers, threads,
                   audio_file, history_file, transactions_file, api_call_count,
                   buttons, status_label, transcription_box, history_box,
                   cost_label, stops>>

(***************************************************************************)
(* src/old_tkinter_transcriber.py: update_loop and the handlers it         *)
(* dispatches to.                                                          *)
(***************************************************************************)
RecordButton(st) ==
    [text |-> "Record", style |-> "Record.TButton", state |-> st]

\* a check_state that calls enable_button whatever the state
MutCheckStateEnables == TRUE

\* check_state (lines 118-125): the branch that calls enable_button
CheckStateEnables == state = "ready"

\* whether the handler of an item raises: the two display handlers load a
\* JSON file
HandlerRaises(item) ==
    \/ item.method = "update_history_display" /\ LoadRaises(history_file)
    \/ item.method = "update_cost_display" /\ LoadRaises(transactions_file)

\* getattr(self, method)(*args) (line 102) for an item whose handler returns
Dispatch(item) ==
    LET m == item.method
        a == item.args
        enables == m = "enable_button"
                   \/ (m = "check_state" /\ CheckStateEnables)
    IN  /\ state' = IF enables THEN "ready" ELSE state
        /\ buttons' =
              IF enables THEN [toggle |-> RecordButton("normal")]
              ELSE IF m = "check_state" /\ state = "recording"
                THEN [toggle |-> [text |-> "Stop", style |-> "Stop.TButton",
                                  state |-> "normal"]]
              ELSE IF m = "check_state"
                THEN [toggle |-> RecordButton("disabled")]
              ELSE IF m = "update_button"
                THEN [toggle |-> [text |-> a[1], style |-> a[2],
                                  state |-> a[3]]]
              ELSE buttons
        /\ status_label' = IF m = "update_status" THEN a[1] ELSE status_label
        /\ transcription_box' =
              IF m = "update_transcription" THEN a[1] ELSE transcription_box
        /\ history_box' =
              IF m = "update_history_display"
              THEN RenderHistory(Load(history_file)) ELSE history_box
        /\ cost_label' =
              IF m = "update_cost_display"
              THEN Totals(transactions_file) ELSE cost_label

\* an update_loop whose call of master.after is the last statement of the
\* try block instead of a finally clause
MutEndTick(raised) ==
    /\ inLoop' = FALSE
    /\ scheduled' = ~raised

\* how a call of update_loop ends (lines 104-109): queue.Empty is passed
\* over, any other exception is logged, and in both cases the finally clause
\* calls self.master.after(50, self.update_loop)
EndTick(raised) ==
    /\ inLoop' = FALSE
    /\ scheduled' = TRUE

\* one iteration of the while loop of update_loop (lines 99-103): take the
\* head item and run its handler.  Tk calls update_loop when the callback of
\* line 109 is due, which uses the callback up; a raising handler ends the
\* call (lines 106-109), the items behind it stay queued for the next call.
\* The handler show_error does not return before the user closes the dialog.
update_loop ==
    /\ program = "app"
    /\ handler = "none"
    /\ inLoop \/ scheduled
    /\ update_queue # <<>>
    /\ update_queue' = Tail(update_queue)
    /\ IF HandlerRaises(Head(update_queue))
       THEN /\ EndTick(TRUE)
            /\ UNCHANGED <<state, buttons, status_label, transcription_box,
                           history_box, cost_label, handler>>
       ELSE /\ inLoop' = TRUE
            /\ scheduled' = FALSE
            /\ Dispatch(Head(update_queue))
            /\ handler' = IF Head(update_queue).method = "show_error"
                          THEN "show_error" ELSE handler
    /\ UNCHANGED <<program, init_pc, writing, stop_duration, now,
                   last_click_time, client, recording, streams, unclosed,
                   audio_data, recording_start_time, timers, threads,
                   audio_file, history_file, transactions_file, api_call_count,
                   stops>>

\* show_error (lines 215-216): the user closes the dialog,
\* messagebox.showerror returns and update_loop goes on
show_error_return ==
    /\ program = "app"
    /\ handler = "show_error"
    /\ handler' = "none"
    /\ UNCHANGED <<program, init_pc, scheduled, writing, stop_duration, now,
                   state, last_click_time, client, recording, streams,
                   unclosed, audio_data, recording_start_time, update_queue,
                   inLoop, timers, threads, audio_file, history_file,
                   transactions_file, api_call_count, buttons, status_label,
                   transcription_box, history_box, cost_label, stops>>

\* get_nowait raises queue.Empty (lines 104-105): the call ends and
\* update_loop is scheduled again (line 109)
update_loop_end ==
    /\ program = "app"
    /\ handler = "none"
    /\ inLoop
    /\ update_queue = <<>>
    /\ EndTick(FALSE)
    /\ UNCHANGED <<program, init_pc, handler, writing, stop_duration, now,
                   state, last_click_time, client, recording, streams,
                   unclosed, audio_data, recording_start_time, update_queue,
                   timers, threads, audio_file, history_file,
                   transactions_file, api_call_count, buttons, status_label,
                   transcription_box, history_box, cost_label, stops>>

(***************************************************************************)
(* src/old_tkinter_transcriber.py: the worker thread, process_audio then   *)
(* transcribe_audio.  A thread record holds the thread's position (pc),    *)
(* its locals (audio, duration, text, and loaded, the list a load          *)
(* returned, until the save that loaded it ends), upload, the content of   *)
(* AUDIO_FILE its remote call sends, until the call ends, puts, the number *)
(* of items it has put of the run of puts it is in, and log, the events of *)
(* its cycle in the order they happened.                                   *)
(***************************************************************************)
Workers == 1..Len(threads)

\* the thread's record with an event added to its log; putting an item on
\* update_queue (scheduling a callback) is logged under the item's method
Logged(t, event) == [t EXCEPT !.log = Append(t.log, event)]

RECURSIVE Methods(_)
Methods(items) ==
    IF items = <<>> THEN <<>>
    ELSE <<Head(items).method>> \o Methods(Tail(items))

LoggedPut(t, items) == [t EXCEPT !.log = t.log \o Methods(items)]

Live(i) == threads[i].pc \notin {"done", "crashed"}

Count(seq, x) == Cardinality({k \in 1..Len(seq) : seq[k] = x})

\* x occurs in seq, and y does not occur before its first x
Precedes(seq, x, y) ==
    \E k \in 1..Len(seq) :
        /\ seq[k] = x
        /\ \A j \in 1..k : seq[j] # y

\* a transcribe_audio that enqueues the refreshes before save_transaction
MutTranscribeSteps ==
    <<"transcribe", "in_call", "copy", "history_load", "history_stamp",
      "history_open", "history_write", "publish", "transactions_load",
      "transactions_stamp", "transactions_open", "transactions_write",
      "after">>

\* the statements of the try block of transcribe_audio, in program order
\* (lines 174-191)
TranscribeSteps ==
    <<"transcribe", "in_call", "copy", "history_load", "history_stamp",
      "history_open", "history_write", "transactions_load",
      "transactions_stamp", "transactions_open", "transactions_write",
      "publish", "after">>

RECURSIVE IndexOf(_, _)
IndexOf(seq, x) ==
    IF seq = <<>> THEN 1
    ELSE IF Head(seq) = x THEN 1 ELSE 1 + IndexOf(Tail(seq), x)

\* the statement that follows step pc
StepAfter(pc) ==
    IF IndexOf(TranscribeSteps, pc) >= Len(TranscribeSteps) THEN "done"
    ELSE TranscribeSteps[IndexOf(TranscribeSteps, pc) + 1]

\* the items transcribe_audio enqueues once both saves returned (lines
\* 185-188)
SuccessItems ==
    <<Item("update_history_display", <<>>),
      Item("update_cost_display", <<>>),
      Item("update_status", <<"Transcription complete">>)>>

\* an except branch that also writes the error into the transcription box
MutFailureShowsInBox ==
    <<Item("update_transcription", << <<"An error occurred">> >>),
      Item("show_error", <<"Transcription Error">>),
      Item("update_status", <<"Transcription failed">>),
      Item("enable_button", <<>>)>>

\* an except branch that forgets to enqueue enable_button
MutFailureItems ==
    <<Item("show_error", <<"Transcription Error">>),
      Item("update_status", <<"Transcription failed">>)>>

\* the items the except branch of transcribe_audio enqueues (lines 196-198)
FailureItems ==
    <<Item("show_error", <<"Transcription Error">>),
      Item("update_status", <<"Transcription failed">>),
      Item("enable_button", <<>>)>>

\* an except branch after which the thread runs the failed statement again
MutExceptRetries(i, t) ==
    /\ threads' = [threads EXCEPT ![i] = t]
    /\ UNCHANGED update_queue

\* an exception in the try block of transcribe_audio, raised by thread i
\* whose record is t: the thread goes to the except branch (line 194)
Except(i, t) ==
    /\ threads' = [threads EXCEPT ![i] = [t EXCEPT !.pc = "except",
                                                   !.puts = 0,
                                                   !.upload = <<>>,
                                                   !.loaded = <<>>]]
    /\ UNCHANGED update_queue

\* thread i puts the next item of items; after the last one it is at pc
PutNext(i, items, pc) ==
    LET k == threads[i].puts + 1
    IN  /\ update_queue' = Append(update_queue, items[k])
        /\ threads' = [threads EXCEPT ![i] =
              [Logged(threads[i], items[k].method) EXCEPT
                 !.puts = IF k >= Len(items) THEN 0 ELSE k,
                 !.pc = IF k >= Len(items) THEN pc ELSE threads[i].pc]]

\* the except branch (lines 194-198): one queue.put per step
transcribe_except(i) ==
    /\ program = "app"
    /\ threads[i].pc = "except"
    /\ PutNext(i, FailureItems, "done")
    /\ UNCHANGED <<program, init_pc, handler, scheduled, writing,
                   stop_duration, now, state, last_click_time, client,
                   recording, streams, unclosed, audio_data,
                   recording_start_time, inLoop, timers, audio_file,
                   history_file, transactions_file, api_call_count, buttons,
                   status_label, transcription_box, history_box, cost_label,
                   stops>>

\* process_audio, line 166-167: np.concatenate raises ValueError on an empty
\* list; process_audio has no try, the thread ends with the exception
process_concatenate(i) ==
    /\ program = "app"
    /\ threads[i].pc = "concatenate"
    /\ threads' = [threads EXCEPT ![i] =
          IF audio_data = <<>>
          THEN [Logged(@, "crashed") EXCEPT !.pc = "crashed"]
          ELSE [@ EXCEPT !.pc = "write",
                         !.audio = Concatenate(audio_data),
                         !.duration = <<Len(Concatenate(audio_data)),
                                        SAMPLE_RATE * 60>>]]
    /\ UNCHANGED <<program, init_pc, handler, scheduled, writing,
                   stop_duration, now, state, last_click_time, client,
                   recording, streams, unclosed, audio_data,
                   recording_start_time, update_queue, inLoop, timers,
                   audio_file, history_file, transactions_file, api_call_count,
                   buttons, status_label, transcription_box, history_box,
                   cost_label, stops>>

\* process_audio, line 168: sf.write(AUDIO_FILE, audio, SAMPLE_RATE); it may
\* fail to open the file, or fail after it truncated the file
process_write(i) ==
    /\ program = "app"
    /\ threads[i].pc = "write"
    /\ \E outcome \in {"ok", "open_raises", "write_raises"} :
          IF outcome = "ok"
          THEN /\ audio_file' = AudioFile(threads[i].audio)
               /\ threads' = [threads EXCEPT ![i] =
                     [Logged(@, "audio_written") EXCEPT
                        !.pc = TranscribeSteps[1]]]
          ELSE /\ threads' = [threads EXCEPT ![i] =
                     [Logged(@, "crashed") EXCEPT !.pc = "crashed"]]
               /\ audio_file' = IF outcome = "write_raises"
                                THEN TruncatedAudioFile ELSE audio_file
    /\ UNCHANGED <<program, init_pc, handler, scheduled, writing,
                   stop_duration, now, state, last_click_time, client,
                   recording, streams, unclosed, audio_data,
                   recording_start_time, update_queue, inLoop, timers,
                   history_file, transactions_file, api_call_count, buttons,
                   status_label, transcription_box, history_box, cost_label,
                   stops>>

\* transcribe_audio, lines 174-177: open the file, count the call and start
\* it (self.client is None until initialize ran: AttributeError before any
\* request is made); the request sends the file as it is now
transcribe_call(i) ==
    /\ program = "app"
    /\ threads[i].pc = "transcribe"
    /\ IF ~audio_file.exists
       THEN /\ Except(i, threads[i])
            /\ UNCHANGED api_call_count
       ELSE /\ api_call_count' = api_call_count + 1
            /\ IF client = "None"
               THEN Except(i, Logged(Logged(threads[i], "api_call"),
                                     "api_raised"))
               ELSE /\ threads' = [threads EXCEPT ![i] =
                          [Logged(@, "api_call") EXCEPT
                             !.pc = StepAfter("transcribe"),
                             !.upload = audio_file.frames]]
                    /\ UNCHANGED update_queue
    /\ UNCHANGED <<program, init_pc, handler, scheduled, writing,
                   stop_duration, now, state, last_click_time, client,
                   recording, streams, unclosed, audio_data,
                   recording_start_time, inLoop, timers, audio_file,
                   history_file, transactions_file, buttons, status_label,
                   transcription_box, history_box, cost_label, stops>>

\* transcribe_audio, lines 177-180: the remote call returns a text, which is
\* enqueued for the transcription box, or raises
transcribe_return(i) ==
    /\ program = "app"
    /\ threads[i].pc = "in_call"
    /\ \E outcome \in {"text", "raises"} :
          IF outcome = "text"
          THEN /\ threads' = [threads EXCEPT ![i] =
                     [Logged(Logged(@, "api_returned"),
                             "update_transcription") EXCEPT
                        !.pc = StepAfter("in_call"),
                        !.text = Transcribe(threads[i].upload),
                        !.upload = <<>>]]
               /\ update_queue' = Append(update_queue,
                     Item("update_transcription",
                          <<Transcribe(threads[i].upload)>>))
          ELSE Except(i, Logged(threads[i], "api_raised"))
    /\ UNCHANGED <<program, init_pc, handler, scheduled, writing,
                   stop_duration, now, state, last_click_time, client,
                   recording, streams, unclosed, audio_data,
                   recording_start_time, inLoop, timers, audio_file,
                   history_file, transactions_file, api_call_count, buttons,
                   status_label, transcription_box, history_box, cost_label,
                   stops>>

\* transcribe_audio, line 181: pyperclip.copy(transcription_text)
transcribe_copy(i) ==
    /\ program = "app"
    /\ threads[i].pc = "copy"
    /\ \E outcome \in {"ok", "raises"} :
          IF outcome = "ok"
          THEN /\ threads' = [threads EXCEPT ![i].pc = StepAfter("copy")]
               /\ UNCHANGED update_queue
          ELSE Except(i, threads[i])
    /\ UNCHANGED <<program, init_pc, handler, scheduled, writing,
                   stop_duration, now, state, last_click_time, client,
                   recording, streams, unclosed, audio_data,
                   recording_start_time, inLoop, timers, audio_file,
                   history_file, transactions_file, api_call_count, buttons,
                   status_label, transcription_box, history_box, cost_label,
                   stops>>

\* save_to_history, line 219: history = self.load_history()
history_load(i) ==
    /\ program = "app"
    /\ threads[i].pc = "history_load"
    /\ IF LoadRaises(history_file)
       THEN Except(i, Logged(threads[i], "history_load"))
       ELSE /\ threads' = [threads EXCEPT ![i] =
                  [Logged(@, "history_load") EXCEPT
                     !.pc = StepAfter("history_load"),
                     !.loaded = Load(history_file)]]
            /\ UNCHANGED update_queue
    /\ UNCHANGED <<program, init_pc, handler, scheduled, writing,
                   stop_duration, now, state, last_click_time, client,
                   recording, streams, unclosed, audio_data,
                   recording_start_time, inLoop, timers, audio_file,
                   history_file, transactions_file, api_call_count, buttons,
                   status_label, transcription_box, history_box, cost_label,
                   stops>>

\* save_to_history, lines 220-221: take the time and append the entry to the
\* loaded list
history_stamp(i) ==
    /\ program = "app"
    /\ threads[i].pc = "history_stamp"
    /\ threads' = [threads EXCEPT ![i] =
          [@ EXCEPT !.pc = StepAfter("history_stamp"),
                    !.loaded = Append(threads[i].loaded,
                                      HistoryEntry(now, threads[i].duration,
                                                   threads[i].text))]]
    /\ UNCHANGED <<program, init_pc, handler, scheduled, writing,
                   stop_duration, now, state, last_click_time, client,
                   recording, streams, unclosed, audio_data,
                   recording_start_time, update_queue, inLoop, timers,
                   audio_file, history_file, transactions_file, api_call_count,
                   buttons, status_label, transcription_box, history_box,
                   cost_label, stops>>

\* save_to_history, line 222: open(HISTORY_FILE, 'w') empties the file, or
\* raises
history_open(i) ==
    /\ program = "app"
    /\ threads[i].pc = "history_open"
    /\ \E outcome \in {"ok", "raises"} :
          IF outcome = "ok"
          THEN /\ history_file' = Malformed
               /\ threads' = [threads EXCEPT ![i].pc =
                     StepAfter("history_open")]
               /\ UNCHANGED update_queue
          ELSE /\ Except(i, threads[i])
               /\ UNCHANGED history_file
    /\ UNCHANGED <<program, init_pc, handler, scheduled, writing,
                   stop_duration, now, state, last_click_time, client,
                   recording, streams, unclosed, audio_data,
                   recording_start_time, inLoop, timers, audio_file,
                   transactions_file, api_call_count, buttons, status_label,
                   transcription_box, history_box, cost_label, stops>>

\* save_to_history, line 223: json.dump writes the list into the opened
\* file, or raises and leaves it malformed
history_write(i) ==
    /\ program = "app"
    /\ threads[i].pc = "history_write"
    /\ \E outcome \in {"ok", "raises"} :
          IF outcome = "ok"
          THEN /\ history_file' \in
                     Dumped(history_file, threads[i].loaded)
               /\ threads' = [threads EXCEPT ![i] =
                     [Logged(@, "history_written") EXCEPT
                        !.pc = StepAfter("history_write"),
                        !.loaded = <<>>]]
               /\ UNCHANGED update_queue
          ELSE /\ Except(i, threads[i])
               /\ history_file' \in {history_file, Malformed}
    /\ UNCHANGED <<program, init_pc, handler, scheduled, writing,
                   stop_duration, now, state, last_click_time, client,
                   recording, streams, unclosed, audio_data,
                   recording_start_time, inLoop, timers, audio_file,
                   transactions_file, api_call_count, buttons, status_label,
                   transcription_box, history_box, cost_label, stops>>

\* save_transaction, line 243: transactions = self.load_transactions()
transactions_load(i) ==
    /\ program = "app"
    /\ threads[i].pc = "transactions_load"
    /\ IF LoadRaises(transactions_file)
       THEN Except(i, Logged(threads[i], "transactions_load"))
       ELSE /\ threads' = [threads EXCEPT ![i] =
                  [Logged(@, "transactions_load") EXCEPT
                     !.pc = StepAfter("transactions_load"),
                     !.loaded = Load(transactions_file)]]
            /\ UNCHANGED update_queue
    /\ UNCHANGED <<program, init_pc, handler, scheduled, writing,
                   stop_duration, now, state, last_click_time, client,
                   recording, streams, unclosed, audio_data,
                   recording_start_time, inLoop, timers, audio_file,
                   history_file, transactions_file, api_call_count, buttons,
                   status_label, transcription_box, history_box, cost_label,
                   stops>>

\* save_transaction, lines 244-246: take the time and append the entry to the
\* loaded list
transactions_stamp(i) ==
    /\ program = "app"
    /\ threads[i].pc = "transactions_stamp"
    /\ threads' = [threads EXCEPT ![i] =
          [@ EXCEPT !.pc = StepAfter("transactions_stamp"),
                    !.loaded = Append(threads[i].loaded,
                                      TransactionEntry(now,
                                                       threads[i].duration))]]
    /\ UNCHANGED <<program, init_pc, handler, scheduled, writing,
                   stop_duration, now, state, last_click_time, client,
                   recording, streams, unclosed, audio_data,
                   recording_start_time, update_queue, inLoop, timers,
                   audio_file, history_file, transactions_file, api_call_count,
                   buttons, status_label, transcription_box, history_box,
                   cost_label, stops>>

\* save_transaction, line 247: open(TRANSACTIONS_FILE, 'w') empties the
\* file, or raises
transactions_open(i) ==
    /\ program = "app"
    /\ threads[i].pc = "transactions_open"
    /\ \E outcome \in {"ok", "raises"} :
          IF outcome = "ok"
          THEN /\ transactions_file' = Malformed
               /\ threads' = [threads EXCEPT ![i].pc =
                     StepAfter("transactions_open")]
               /\ UNCHANGED update_queue
          ELSE /\ Except(i, threads[i])
               /\ UNCHANGED transactions_file
    /\ UNCHANGED <<program, init_pc, handler, scheduled, writing,
                   stop_duration, now, state, last_click_time, client,
                   recording, streams, unclosed, audio_data,
                   recording_start_time, inLoop, timers, audio_file,
                   history_file, api_call_count, buttons, status_label,
                   transcription_box, history_box, cost_label, stops>>

\* save_transaction, line 248: json.dump
transactions_write(i) ==
    /\ program = "app"
    /\ threads[i].pc = "transactions_write"
    /\ \E outcome \in {"ok", "raises"} :
          IF outcome = "ok"
          THEN /\ transactions_file' \in
                     Dumped(transactions_file, threads[i].loaded)
               /\ threads' = [threads EXCEPT ![i] =
                     [Logged(@, "transactions_written") EXCEPT
                        !.pc = StepAfter("transactions_write"),
                        !.loaded = <<>>]]
               /\ UNCHANGED update_queue
          ELSE /\ Except(i, threads[i])
               /\ transactions_file' \in {transactions_file, Malformed}
    /\ UNCHANGED <<program, init_pc, handler, scheduled, writing,
                   stop_duration, now, state, last_click_time, client,
                   recording, streams, unclosed, audio_data,
                   recording_start_time, inLoop, timers, audio_file,
                   history_file, api_call_count, buttons, status_label,
                   transcription_box, history_box, cost_label, stops>>

\* transcribe_audio, lines 185-188: enqueue the refreshes and the status,
\* one queue.put per step
transcribe_publish(i) ==
    /\ program = "app"
    /\ threads[i].pc = "publish"
    /\ PutNext(i, SuccessItems, StepAfter("publish"))
    /\ UNCHANGED <<program, init_pc, handler, scheduled, writing,
                   stop_duration, now, state, last_click_time, client,
                   recording, streams, unclosed, audio_data,
                   recording_start_time, inLoop, timers, audio_file,
                   history_file, transactions_file, api_call_count, buttons,
                   status_label, transcription_box, history_box, cost_label,
                   stops>>

\* transcribe_audio, line 191: schedule the delayed enable_button
transcribe_after(i) ==
    /\ program = "app"
    /\ threads[i].pc = "after"
    /\ timers' = timers + 1
    /\ threads' = [threads EXCEPT ![i] =
          [Logged(@, "after_enable_button") EXCEPT
             !.pc = StepAfter("after")]]
    /\ UNCHANGED <<program, init_pc, handler, scheduled, writing,
                   stop_duration, now, state, last_click_time, client,
                   recording, streams, unclosed, audio_data,
                   recording_start_time, update_queue, inLoop, audio_file,
                   history_file, transactions_file, api_call_count, buttons,
                   status_label, transcription_box, history_box, cost_label,
                   stops>>

(***************************************************************************)
(* src/transcriber.py: the button commands.  Tk runs a                     *)
(* button's command on a click only while the button is not disabled.      *)
(***************************************************************************)
\* start_recording (lines 40-50), the command of start_button
script_start_recording ==
    /\ program = "script"
    /\ ~writing
    /\ buttons.start = "normal"
    /\ status_label' = "Recording..."
    /\ audio_data' = <<>>
    /\ recording_start_time' = now
    /\ streams' = streams + 1
    /\ \E outcome \in StreamOutcomes :
          CASE outcome = "create_raises" ->
                 UNCHANGED <<recording, unclosed, buttons>>
            [] outcome = "start_raises" ->
                 /\ Rebind("created")
                 /\ UNCHANGED buttons
            [] outcome = "ok" ->
                 /\ Rebind("active")
                 /\ buttons' = [start |-> "disabled", stop |-> "normal"]
    /\ UNCHANGED <<program, init_pc, handler, scheduled, writing,
                   stop_duration, now, state, last_click_time, client,
                   update_queue, inLoop, timers, threads, audio_file,
                   history_file, transactions_file, api_call_count,
                   transcription_box, history_box, cost_label, stops>>

\* the statements of the try block of transcribe_audio, in program order
\* (lines 85-111)
ScriptTranscribeSteps ==
    <<"status", "open", "transcribe", "in_call", "box_delete", "box_insert",
      "copy", "history_load", "history_stamp", "history_open",
      "history_write", "transactions_load", "transactions_stamp",
      "transactions_open", "transactions_write", "publish">>

\* a thread just started by threading.Thread(target=transcribe_audio,
\* args=(duration,)) (line 79); audio is the waveform that the
\* stop_recording call starting the thread wrote (lines 64-70)
ScriptWorker(duration) ==
    [pc |-> ScriptTranscribeSteps[1], audio |-> Concatenate(audio_data),
     duration |-> duration, upload |-> <<>>, text |-> <<>>,
     loaded |-> <<>>, puts |-> 0, log |-> <<>>]

\* line 61: (recording_end_time - recording_start_time).total_seconds() / 60
ElapsedMinutes == <<now - recording_start_time, 60 * 1000>>

\* stop_recording (lines 54-66), the command of stop_button, up to
\* wave.open(AUDIO_FILE, 'wb'), which truncates the file.  recording.stop()
\* and recording.close() do not raise, on a closed stream either (the Stop
\* button stays enabled when an earlier call raised); the duration is taken
\* from the clock (lines 60-61); np.concatenate raises on an empty list;
\* wave.open may raise.  An exception leaves the handler where it is raised.
script_stop_recording ==
    /\ program = "script"
    /\ ~writing
    /\ buttons.stop = "normal"
    /\ recording' = "closed"
    /\ \E outcome \in {"opened", "open_raises"} :
          IF audio_data # <<>> /\ outcome = "opened"
          THEN /\ audio_file' = TruncatedAudioFile
               /\ writing' = TRUE
               /\ stop_duration' = ElapsedMinutes
          ELSE UNCHANGED <<audio_file, writing, stop_duration>>
    /\ UNCHANGED <<program, init_pc, handler, scheduled, now, state,
                   last_click_time, client, streams, unclosed, audio_data,
                   recording_start_time, update_queue, inLoop, timers, threads,
                   history_file, transactions_file, api_call_count, buttons,
                   status_label, transcription_box, history_box, cost_label,
                   stops>>

\* stop_recording (lines 67-79): write the frames and close the file, show
\* the status, enable Start, disable Stop, start the thread with the
\* duration of line 61.  A write that raises leaves the file truncated and
\* the buttons as they were.
script_stop_write ==
    /\ program = "script"
    /\ writing
    /\ writing' = FALSE
    /\ stop_duration' = NoDuration
    /\ \E outcome \in {"ok", "write_raises"} :
          IF outcome = "ok"
          THEN /\ audio_file' = AudioFile(Concatenate(audio_data))
               /\ status_label' = "Recording stopped"
               /\ buttons' = [start |-> "normal", stop |-> "disabled"]
               /\ threads' =
                     Append(threads, Logged(ScriptWorker(stop_duration),
                                            "audio_written"))
               /\ stops' = stops + 1
          ELSE UNCHANGED <<audio_file, status_label, buttons, threads,
                           stops>>
    /\ UNCHANGED <<program, init_pc, handler, scheduled, now, state,
                   last_click_time, client, recording, streams, unclosed,
                   audio_data, recording_start_time, update_queue, inLoop,
                   timers, history_file, transactions_file, api_call_count,
                   transcription_box, history_box, cost_label>>

\* the Tk thread runs the oldest pending root.after(0, ...) callback.  The
\* showerror lambda (line 114) changes nothing the model holds.
script_after_callback ==
    /\ program = "script"
    /\ ~writing
    /\ update_queue # <<>>
    /\ update_queue' = Tail(update_queue)
    /\ LET m == Head(update_queue).method
           a == Head(update_queue).args
       IN  /\ status_label' = IF m = "status" THEN a[1] ELSE status_label
           /\ transcription_box' =
                 IF m = "box_delete" THEN <<>>
                 ELSE IF m = "box_insert" THEN transcription_box \o a[1]
                 ELSE transcription_box
           /\ cost_label' =
                 IF m = "update_cost_display" /\ ~LoadRaises(transactions_file)
                 THEN Totals(transactions_file) ELSE cost_label
           /\ history_box' =
                 IF m = "update_history_display" /\ ~LoadRaises(history_file)
                 THEN RenderHistory(Load(history_file)) ELSE history_box
    /\ UNCHANGED <<program, init_pc, handler, scheduled, writing,
                   stop_duration, now, state, last_click_time, client,
                   recording, streams, unclosed, audio_data,
                   recording_start_time, inLoop, timers, threads, audio_file,
                   history_file, transactions_file, api_call_count, buttons,
                   stops>>

(***************************************************************************)
(* src/transcriber.py: the transcribe_audio thread.                        *)
(***************************************************************************)
ScriptStepAfter(pc) ==
    IF IndexOf(ScriptTranscribeSteps, pc) >= Len(ScriptTranscribeSteps)
    THEN "done"
    ELSE ScriptTranscribeSteps[IndexOf(ScriptTranscribeSteps, pc) + 1]

\* the callbacks the except branch schedules (lines 114-115)
ScriptFailureItems ==
    <<Item("showerror", <<"Transcription Error">>),
      Item("status", <<"Transcription failed">>)>>

\* an exception in the try block of transcribe_audio, raised by thread i
\* whose record is t: the thread goes to the except branch (line 113)
ScriptExcept(i, t) ==
    /\ threads' = [threads EXCEPT ![i] = [t EXCEPT !.pc = "except",
                                                   !.puts = 0,
                                                   !.upload = <<>>,
                                                   !.loaded = <<>>]]
    /\ UNCHANGED update_queue

\* the except branch (lines 114-115): one root.after call per step
script_transcribe_except(i) ==
    /\ program = "script"
    /\ threads[i].pc = "except"
    /\ PutNext(i, ScriptFailureItems, "done")
    /\ UNCHANGED <<program, init_pc, handler, scheduled, writing,
                   stop_duration, now, state, last_click_time, client,
                   recording, streams, unclosed, audio_data,
                   recording_start_time, inLoop, timers, audio_file,
                   history_file, transactions_file, api_call_count, buttons,
                   status_label, transcription_box, history_box, cost_label,
                   stops>>

\* line 85: schedule the progress status
script_transcribe_status(i) ==
    /\ program = "script"
    /\ threads[i].pc = "status"
    /\ threads' = [threads EXCEPT ![i] =
          [Logged(@, "status") EXCEPT !.pc = ScriptStepAfter("status")]]
    /\ update_queue' =
          Append(update_queue,
                 Item("status", <<"Transcription in progress...">>))
    /\ UNCHANGED <<program, init_pc, handler, scheduled, writing,
                   stop_duration, now, state, last_click_time, client,
                   recording, streams, unclosed, audio_data,
                   recording_start_time, inLoop, timers, audio_file,
                   history_file, transactions_file, api_call_count, buttons,
                   status_label, transcription_box, history_box, cost_label,
                   stops>>

\* lines 87-88: open(file_path, "rb") raises when the file is missing
script_transcribe_open(i) ==
    /\ program = "script"
    /\ threads[i].pc = "open"
    /\ IF ~audio_file.exists
       THEN ScriptExcept(i, threads[i])
       ELSE /\ threads' = [threads EXCEPT ![i].pc = ScriptStepAfter("open")]
            /\ UNCHANGED update_queue
    /\ UNCHANGED <<program, init_pc, handler, scheduled, writing,
                   stop_duration, now, state, last_click_time, client,
                   recording, streams, unclosed, audio_data,
                   recording_start_time, inLoop, timers, audio_file,
                   history_file, transactions_file, api_call_count, buttons,
                   status_label, transcription_box, history_box, cost_label,
                   stops>>

\* line 89: the remote call starts; the request sends the opened file as it
\* is now
script_transcribe_call(i) ==
    /\ program = "script"
    /\ threads[i].pc = "transcribe"
    /\ threads' = [threads EXCEPT ![i] =
          [Logged(@, "api_call") EXCEPT
             !.pc = ScriptStepAfter("transcribe"),
             !.upload = audio_file.frames]]
    /\ UNCHANGED <<program, init_pc, handler, scheduled, writing,
                   stop_duration, now, state, last_click_time, client,
                   recording, streams, unclosed, audio_data,
                   recording_start_time, update_queue, inLoop, timers,
                   audio_file, history_file, transactions_file, api_call_count,
                   buttons, status_label, transcription_box, history_box,
                   cost_label, stops>>

\* lines 89-93: the remote call returns a text or raises
script_transcribe_return(i) ==
    /\ program = "script"
    /\ threads[i].pc = "in_call"
    /\ \E outcome \in {"text", "raises"} :
          IF outcome = "text"
          THEN /\ threads' = [threads EXCEPT ![i] =
                     [Logged(@, "api_returned") EXCEPT
                        !.pc = ScriptStepAfter("in_call"),
                        !.text = Transcribe(threads[i].upload),
                        !.upload = <<>>]]
               /\ UNCHANGED update_queue
          ELSE ScriptExcept(i, Logged(threads[i], "api_raised"))
    /\ UNCHANGED <<program, init_pc, handler, scheduled, writing,
                   stop_duration, now, state, last_click_time, client,
                   recording, streams, unclosed, audio_data,
                   recording_start_time, inLoop, timers, audio_file,
                   history_file, transactions_file, api_call_count, buttons,
                   status_label, transcription_box, history_box, cost_label,
                   stops>>

\* line 95: schedule the emptying of the transcription box
script_box_delete(i) ==
    /\ program = "script"
    /\ threads[i].pc = "box_delete"
    /\ threads' = [threads EXCEPT ![i] =
          [Logged(@, "box_delete") EXCEPT
             !.pc = ScriptStepAfter("box_delete")]]
    /\ update_queue' = Append(update_queue, Item("box_delete", <<>>))
    /\ UNCHANGED <<program, init_pc, handler, scheduled, writing,
                   stop_duration, now, state, last_click_time, client,
                   recording, streams, unclosed, audio_data,
                   recording_start_time, inLoop, timers, audio_file,
                   history_file, transactions_file, api_call_count, buttons,
                   status_label, transcription_box, history_box, cost_label,
                   stops>>

\* line 96: schedule the insertion of the text into the transcription box
script_box_insert(i) ==
    /\ program = "script"
    /\ threads[i].pc = "box_insert"
    /\ threads' = [threads EXCEPT ![i] =
          [Logged(@, "box_insert") EXCEPT
             !.pc = ScriptStepAfter("box_insert")]]
    /\ update_queue' = Append(update_queue,
                              Item("box_insert", <<threads[i].text>>))
    /\ UNCHANGED <<program, init_pc, handler, scheduled, writing,
                   stop_duration, now, state, last_click_time, client,
                   recording, streams, unclosed, audio_data,
                   recording_start_time, inLoop, timers, audio_file,
                   history_file, transactions_file, api_call_count, buttons,
                   status_label, transcription_box, history_box, cost_label,
                   stops>>

\* line 99: pyperclip.copy(transcription_text)
script_transcribe_copy(i) ==
    /\ program = "script"
    /\ threads[i].pc = "copy"
    /\ \E outcome \in {"ok", "raises"} :
          IF outcome = "ok"
          THEN /\ threads' = [threads EXCEPT ![i].pc = ScriptStepAfter("copy")]
               /\ UNCHANGED update_queue
          ELSE ScriptExcept(i, threads[i])
    /\ UNCHANGED <<program, init_pc, handler, scheduled, writing,
                   stop_duration, now, state, last_click_time, client,
                   recording, streams, unclosed, audio_data,
                   recording_start_time, inLoop, timers, audio_file,
                   history_file, transactions_file, api_call_count, buttons,
                   status_label, transcription_box, history_box, cost_label,
                   stops>>

\* save_to_history, line 120: history = load_history()
script_history_load(i) ==
    /\ program = "script"
    /\ threads[i].pc = "history_load"
    /\ IF LoadRaises(history_file)
       THEN ScriptExcept(i, Logged(threads[i], "history_load"))
       ELSE /\ threads' = [threads EXCEPT ![i] =
                  [Logged(@, "history_load") EXCEPT
                     !.pc = ScriptStepAfter("history_load"),
                     !.loaded = Load(history_file)]]
            /\ UNCHANGED update_queue
    /\ UNCHANGED <<program, init_pc, handler, scheduled, writing,
                   stop_duration, now, state, last_click_time, client,
                   recording, streams, unclosed, audio_data,
                   recording_start_time, inLoop, timers, audio_file,
                   history_file, transactions_file, api_call_count, buttons,
                   status_label, transcription_box, history_box, cost_label,
                   stops>>

\* save_to_history, lines 121-126: take the time and append the entry to the
\* loaded list
script_history_stamp(i) ==
    /\ program = "script"
    /\ threads[i].pc = "history_stamp"
    /\ threads' = [threads EXCEPT ![i] =
          [@ EXCEPT !.pc = ScriptStepAfter("history_stamp"),
                    !.loaded = Append(threads[i].loaded,
                                      HistoryEntry(now, threads[i].duration,
                                                   threads[i].text))]]
    /\ UNCHANGED <<program, init_pc, handler, scheduled, writing,
                   stop_duration, now, state, last_click_time, client,
                   recording, streams, unclosed, audio_data,
                   recording_start_time, update_queue, inLoop, timers,
                   audio_file, history_file, transactions_file, api_call_count,
                   buttons, status_label, transcription_box, history_box,
                   cost_label, stops>>

\* save_to_history, line 128: open(HISTORY_FILE, 'w') empties the file, or
\* raises
script_history_open(i) ==
    /\ program = "script"
    /\ threads[i].pc = "history_open"
    /\ \E outcome \in {"ok", "raises"} :
          IF outcome = "ok"
          THEN /\ history_file' = Malformed
               /\ threads' = [threads EXCEPT ![i].pc =
                     ScriptStepAfter("history_open")]
               /\ UNCHANGED update_queue
          ELSE /\ ScriptExcept(i, threads[i])
               /\ UNCHANGED history_file
    /\ UNCHANGED <<program, init_pc, handler, scheduled, writing,
                   stop_duration, now, state, last_click_time, client,
                   recording, streams, unclosed, audio_data,
                   recording_start_time, inLoop, timers, audio_file,
                   transactions_file, api_call_count, buttons, status_label,
                   transcription_box, history_box, cost_label, stops>>

\* save_to_history, line 129: json.dump writes the list into the opened
\* file, or raises and leaves it malformed
script_history_write(i) ==
    /\ program = "script"
    /\ threads[i].pc = "history_write"
    /\ \E outcome \in {"ok", "raises"} :
          IF outcome = "ok"
          THEN /\ history_file' \in
                     Dumped(history_file, threads[i].loaded)
               /\ threads' = [threads EXCEPT ![i] =
                     [Logged(@, "history_written") EXCEPT
                        !.pc = ScriptStepAfter("history_write"),
                        !.loaded = <<>>]]
               /\ UNCHANGED update_queue
          ELSE /\ ScriptExcept(i, threads[i])
               /\ history_file' \in {history_file, Malformed}
    /\ UNCHANGED <<program, init_pc, handler, scheduled, writing,
                   stop_duration, now, state, last_click_time, client,
                   recording, streams, unclosed, audio_data,
                   recording_start_time, inLoop, timers, audio_file,
                   transactions_file, api_call_count, buttons, status_label,
                   transcription_box, history_box, cost_label, stops>>

\* save_transaction, line 159: transactions = load_transactions()
script_transactions_load(i) ==
    /\ program = "script"
    /\ threads[i].pc = "transactions_load"
    /\ IF LoadRaises(transactions_file)
       THEN ScriptExcept(i, Logged(threads[i], "transactions_load"))
       ELSE /\ threads' = [threads EXCEPT ![i] =
                  [Logged(@, "transactions_load") EXCEPT
                     !.pc = ScriptStepAfter("transactions_load"),
                     !.loaded = Load(transactions_file)]]
            /\ UNCHANGED update_queue
    /\ UNCHANGED <<program, init_pc, handler, scheduled, writing,
                   stop_duration, now, state, last_click_time, client,
                   recording, streams, unclosed, audio_data,
                   recording_start_time, inLoop, timers, audio_file,
                   history_file, transactions_file, api_call_count, buttons,
                   status_label, transcription_box, history_box, cost_label,
                   stops>>

\* save_transaction, lines 160-162: take the time and append the entry to the
\* loaded list
script_transactions_stamp(i) ==
    /\ program = "script"
    /\ threads[i].pc = "transactions_stamp"
    /\ threads' = [threads EXCEPT ![i] =
          [@ EXCEPT !.pc = ScriptStepAfter("transactions_stamp"),
                    !.loaded = Append(threads[i].loaded,
                                      TransactionEntry(now,
                                                       threads[i].duration))]]
    /\ UNCHANGED <<program, init_pc, handler, scheduled, writing,
                   stop_duration, now, state, last_click_time, client,
                   recording, streams, unclosed, audio_data,
                   recording_start_time, update_queue, inLoop, timers,
                   audio_file, history_file, transactions_file, api_call_count,
                   buttons, status_label, transcription_box, history_box,
                   cost_label, stops>>

\* save_transaction, line 164: open(TRANSACTIONS_FILE, 'w') empties the
\* file, or raises
script_transactions_open(i) ==
    /\ program = "script"
    /\ threads[i].pc = "transactions_open"
    /\ \E outcome \in {"ok", "raises"} :
          IF outcome = "ok"
          THEN /\ transactions_file' = Malformed
               /\ threads' = [threads EXCEPT ![i].pc =
                     ScriptStepAfter("transactions_open")]
               /\ UNCHANGED update_queue
          ELSE /\ ScriptExcept(i, threads[i])
               /\ UNCHANGED transactions_file
    /\ UNCHANGED <<program, init_pc, handler, scheduled, writing,
                   stop_duration, now, state, last_click_time, client,
                   recording, streams, unclosed, audio_data,
                   recording_start_time, inLoop, timers, audio_file,
                   history_file, api_call_count, buttons, status_label,
                   transcription_box, history_box, cost_label, stops>>

\* save_transaction, line 165: json.dump
script_transactions_write(i) ==
    /\ program = "script"
    /\ threads[i].pc = "transactions_write"
    /\ \E outcome \in {"ok", "raises"} :
          IF outcome = "ok"
          THEN /\ transactions_file' \in
                     Dumped(transactions_file, threads[i].loaded)
               /\ threads' = [threads EXCEPT ![i] =
                     [Logged(@, "transactions_written") EXCEPT
                        !.pc = ScriptStepAfter("transactions_write"),
                        !.loaded = <<>>]]
               /\ UNCHANGED update_queue
          ELSE /\ ScriptExcept(i, threads[i])
               /\ transactions_file' \in {transactions_file, Malformed}
    /\ UNCHANGED <<program, init_pc, handler, scheduled, writing,
                   stop_duration, now, state, last_click_time, client,
                   recording, streams, unclosed, audio_data,
                   recording_start_time, inLoop, timers, audio_file,
                   history_file, api_call_count, buttons, status_label,
                   transcription_box, history_box, cost_label, stops>>

\* the callbacks scheduled once both saves returned (lines 106-111)
ScriptSuccessItems ==
    <<Item("update_cost_display", <<>>),
      Item("update_history_display", <<>>),
      Item("status", <<"Transcription complete">>)>>

\* lines 106-111: schedule the two refreshes and the final status, one
\* root.after call per step
script_transcribe_publish(i) ==
    /\ program = "script"
    /\ threads[i].pc = "publish"
    /\ PutNext(i, ScriptSuccessItems, ScriptStepAfter("publish"))
    /\ UNCHANGED <<program, init_pc, handler, scheduled, writing,
                   stop_duration, now, state, last_click_time, client,
                   recording, streams, unclosed, audio_data,
                   recording_start_time, inLoop, timers, audio_file,
                   history_file, transactions_file, api_call_count, buttons,
                   status_label, transcription_box, history_box, cost_label,
                   stops>>

(***************************************************************************)
(* The specification.                                                      *)
(***************************************************************************)
\* the steps of the class AudioRecorderApp: its Tk-thread handlers and its
\* worker threads
AppSteps ==
    \/ toggle_recording
    \/ on_focus_in
    \/ enable_timer
    \/ initialize
    \/ start_recording_end
    \/ stop_recording_end
    \/ update_loop
    \/ show_error_return
    \/ update_loop_end
    \/ \E i \in Workers : process_concatenate(i)
    \/ \E i \in Workers : process_write(i)
    \/ \E i \in Workers : transcribe_call(i)
    \/ \E i \in Workers : transcribe_return(i)
    \/ \E i \in Workers : transcribe_copy(i)
    \/ \E i \in Workers : history_load(i)
    \/ \E i \in Workers : history_stamp(i)
    \/ \E i \in Workers : history_open(i)
    \/ \E i \in Workers : history_write(i)
    \/ \E i \in Workers : transactions_load(i)
    \/ \E i \in Workers : transactions_stamp(i)
    \/ \E i \in Workers : transactions_open(i)
    \/ \E i \in Workers : transactions_write(i)
    \/ \E i \in Workers : transcribe_publish(i)
    \/ \E i \in Workers : transcribe_after(i)
    \/ \E i \in Workers : transcribe_except(i)

\* the steps of the script: its button commands, its after callbacks and
\* its transcribe_audio threads
ScriptSteps ==
    \/ script_start_recording
    \/ script_stop_recording
    \/ script_stop_write
    \/ script_after_callback
    \/ \E i \in Workers : script_transcribe_status(i)
    \/ \E i \in Workers : script_transcribe_open(i)
    \/ \E i \in Workers : script_transcribe_call(i)
    \/ \E i \in Workers : script_transcribe_return(i)
    \/ \E i \in Workers : script_box_delete(i)
    \/ \E i \in Workers : script_box_insert(i)
    \/ \E i \in Workers : script_transcribe_copy(i)
    \/ \E i \in Workers : script_history_load(i)
    \/ \E i \in Workers : script_history_stamp(i)
    \/ \E i \in Workers : script_history_open(i)
    \/ \E i \in Workers : script_history_write(i)
    \/ \E i \in Workers : script_transactions_load(i)
    \/ \E i \in Workers : script_transactions_stamp(i)
    \/ \E i \in Workers : script_transactions_open(i)
    \/ \E i \in Workers : script_transactions_write(i)
    \/ \E i \in Workers : script_transcribe_publish(i)
    \/ \E i \in Workers : script_transcribe_except(i)

\* The specifications differ in the initial files and in the clock only.
\* AppSpec starts the class on every combination of absent, malformed and
\* well-formed files, LiveSpec on those without entries, LongSpec and Spec
\* on well-formed files.  The clock of LongSpec advances MaxLongTicks times,
\* which lets a click pass the cooldown test after the Stop click of a
\* cycle; the clock of the others advances MaxTicks times.
Next ==
    \/ Tick
    \/ audio_callback
    \/ AppSteps
    \/ ScriptSteps

\* the JSON files at the start of a run of LongSpec or Spec: a history that
\* an earlier version wrote, no transactions yet
WellFormedFiles ==
    /\ history_file = LegacyHistory
    /\ transactions_file = Absent

BothInit == Init /\ WellFormedFiles

\* a run of either program, started on well-formed files
Spec == BothInit /\ [][Next]_vars

\* a run of the class AudioRecorderApp
AppNext ==
    \/ Tick
    \/ audio_callback
    \/ AppSteps

AppInit == Init /\ program = "app"

AppSpec == AppInit /\ [][AppNext]_vars

\* a long run of the class, started on well-formed files
LongNext ==
    \/ LongTick
    \/ audio_callback
    \/ AppSteps

LongInit == AppInit /\ WellFormedFiles

LongSpec == LongInit /\ [][LongNext]_vars

\* a run of the script
ScriptNext ==
    \/ Tick
    \/ audio_callback
    \/ ScriptSteps

ScriptInit == Init /\ program = "script"

ScriptSpec == ScriptInit /\ [][ScriptNext]_vars

\* the class started without well-formed files to render (the entries of
\* the files play no part in the scheduling); the refresh of a malformed
\* file raises in update_loop
LiveInit == AppInit /\ history_file # LegacyHistory

\* what the Tk thread does by itself: the handler it is in runs to its end,
\* the update_loop that line 109 scheduled is called, and a due
\* master.after callback is called.  Closing an error dialog is the user's
\* step, and is not among them.
TkRuns ==
    \/ start_recording_end
    \/ stop_recording_end
    \/ update_loop
    \/ update_loop_end
    \/ enable_timer

\* mainloop keeps running, and a worker thread in its except branch keeps
\* being scheduled; nothing is assumed of the user
LiveSpec ==
    /\ LiveInit
    /\ [][AppNext]_vars
    /\ WF_vars(TkRuns)
    /\ WF_vars(\E i \in Workers : transcribe_except(i))

\* the user closes every error dialog
UserClosesDialogs == WF_vars(show_error_return)

(***************************************************************************)
(* Vocabulary of the claims.                                               *)
(***************************************************************************)
LiveWorkers == {i \in Workers : Live(i)}

\* streams that were created and never closed
OpenStreams ==
    unclosed + (IF recording \in {"created", "active"} THEN 1 ELSE 0)

Pending(method) ==
    \E k \in 1..Len(update_queue) : update_queue[k].method = method

\* two rationals are the same number (the floats the program computes for
\* them agree up to rounding)
RatEq(p, q) == Reduce(p) = Reduce(q)

\* the entries of a store written by this version of the program
NewEntries(file) ==
    {k \in 1..Len(Load(file)) : "duration" \in DOMAIN Load(file)[k]}

InLog(i, event) == Count(threads[i].log, event) > 0

(***************************************************************************)
(* C1 (program "app").  At most one capture/transcription cycle is in      *)
(* flight: never more than one live worker thread, no input stream open    *)
(* while a worker is live, and at most one ledger append pair per accepted *)
(* stop.                                                                   *)
(* The code breaks the second part: a stream whose start() raised is left  *)
(* open by start_recording and is still open when a later cycle's worker   *)
(* runs.                                                                   *)
(***************************************************************************)
C1_OneCycleInFlight ==
    program = "app" =>
      /\ Cardinality(LiveWorkers) <= 1
      /\ (LiveWorkers # {} => OpenStreams = 0)
      /\ Len(threads) <= stops
      /\ \A i \in Workers :
            /\ Count(threads[i].log, "history_written") <= 1
            /\ Count(threads[i].log, "transactions_written") <= 1

\* The part of C1 the code does keep: no worker runs while self.recording
\* is a stream that was not closed.
WorkerExcludesCapture ==
    program = "app" =>
      /\ Cardinality(LiveWorkers) <= 1
      /\ (LiveWorkers # {} => recording \notin {"created", "active"})
      /\ Len(threads) <= stops

(***************************************************************************)
(* C2 (program "script").  While a transcribe_audio thread                 *)
(* is running no recording is in progress and no second transcribe_audio   *)
(* thread runs.                                                            *)
(* The code enables the Start button before it starts the thread.          *)
(***************************************************************************)
C2_ScriptOneCycleInFlight ==
    program = "script" =>
      /\ Cardinality(LiveWorkers) <= 1
      /\ (LiveWorkers # {} => recording # "active")

(***************************************************************************)
(* C3 (program "script").  After a run in which n                          *)
(* transcription calls returned text and nothing else failed (no file      *)
(* operation, no clipboard copy), the history store holds exactly n new    *)
(* entries and the transactions store exactly n entries.                   *)
(* Two threads that both load a store before either rewrites it lose one   *)
(* of the two appends.                                                     *)
(***************************************************************************)
OnlyCallsFailed ==
    \A i \in Workers : InLog(i, "showerror") => InLog(i, "api_raised")

\* C3: with all threads finished and no failure but the remote call's, each
\* store holds one new entry per transcription that returned text.
C3_ScriptAppendsNotLost ==
    (/\ program = "script"
     /\ LiveWorkers = {}
     /\ OnlyCallsFailed)
    => LET n == Cardinality({i \in Workers : InLog(i, "api_returned")})
       IN  /\ Cardinality(NewEntries(history_file)) = n
           /\ Len(Load(transactions_file)) = n

(***************************************************************************)
(* C4 (program "app").  Every cycle whose remote call returned text        *)
(* has, once its worker is finished, exactly one history entry and exactly *)
(* one transaction entry, with the same duration, whatever the later steps *)
(* of transcribe_audio did.                                                *)
(* A raising pyperclip.copy, load or write takes the except branch and the *)
(* remaining appends are skipped.                                          *)
(***************************************************************************)
C4_OnePairPerTranscription ==
    program = "app" =>
      \A i \in Workers :
        (threads[i].pc = "done" /\ InLog(i, "api_returned")) =>
          /\ Cardinality({k \in NewEntries(history_file) :
                /\ Load(history_file)[k].transcription = threads[i].text
                /\ Load(history_file)[k].duration = threads[i].duration})
               = 1
          /\ Count(threads[i].log, "transactions_written") = 1
          /\ \E k \in 1..Len(Load(transactions_file)) :
                Load(transactions_file)[k].duration = threads[i].duration

(***************************************************************************)
(* C5 (program "app").  Every cycle that enters "processing" returns       *)
(* to "ready".  Only the enable_button handler sets state to "ready" from  *)
(* "processing", and only a worker (directly, or through the timer it      *)
(* schedules) enqueues enable_button; so in state "processing" there is    *)
(* always a live worker, a pending timer or a queued enable_button.        *)
(* A worker that dies in process_audio (np.concatenate of an empty buffer, *)
(* sf.write raising) leaves state "processing" with none of the three: no  *)
(* step of the program changes state any more.                             *)
(***************************************************************************)
C5_ProcessingReturnsToReady ==
    (program = "app" /\ state = "processing")
    => (LiveWorkers # {} \/ timers > 0 \/ Pending("enable_button"))

(***************************************************************************)
(* C6 (program "app").  When the remote call raises, the cycle writes      *)
(* neither store, enqueues exactly one show_error item, and the state      *)
(* returns to "ready": once the except branch has run, the cycle's         *)
(* enable_button item is waiting in update_queue until it does.            *)
(***************************************************************************)
C6_CallFailure ==
    program = "app" =>
      \A i \in Workers :
        InLog(i, "api_raised") =>
          /\ ~InLog(i, "history_written")
          /\ ~InLog(i, "transactions_written")
          /\ threads[i].pc \in {"except", "done"}
          /\ Count(threads[i].log, "show_error")
               = (IF threads[i].pc = "except" /\ threads[i].puts = 0
                  THEN 0 ELSE 1)
          /\ (threads[i].pc = "done" /\ i = Len(threads)
                /\ state = "processing")
               => Pending("enable_button")

C6_Returns ==
    (/\ program = "app"
     /\ threads # <<>>
     /\ state = "processing"
     /\ InLog(Len(threads), "api_raised"))
    ~> (state = "ready")

\* C6 as it is stated: a cycle whose remote call raised writes no store,
\* enqueues one show_error, and its state returns to "ready".  The
\* show_error item is ahead of enable_button in update_queue (lines 196-198)
\* and its handler returns only when the user closes the dialog: with the
\* dialog left open the state stays "processing".
C6_WithoutUser == []C6_CallFailure /\ C6_Returns

\* C6, with the assumption it needs: a cycle whose remote call raised writes
\* no store, enqueues one show_error, and, provided the user closes the
\* error dialog, its state returns to "ready".
C6_CallFailureHandled ==
    []C6_CallFailure /\ (UserClosesDialogs => C6_Returns)

\* the remote call of a cycle raised, the user closed the dialog and the
\* enable_button item behind it set the state
C6_Witness ==
    /\ program = "app"
    /\ Len(threads) = 1
    /\ InLog(1, "api_raised")
    /\ InLog(1, "enable_button")
    /\ handler = "none"
    /\ ~Pending("enable_button")
    /\ state = "ready"
    /\ client = "OpenAI"

(***************************************************************************)
(* C7 (program "app").  state changes only from "ready" to                 *)
(* "recording" (at the end of start_recording, with a started stream),     *)
(* from "recording" to "processing" (at the end of stop_recording, which   *)
(* starts the worker) and from "processing" to "ready" (update_loop        *)
(* running an enable_button item).                                         *)
(***************************************************************************)
C7_Transition ==
    (program = "app" /\ state' # state) =>
      \/ /\ state = "ready" /\ state' = "recording"
         /\ handler = "start_recording" /\ recording' = "active"
      \/ /\ state = "recording" /\ state' = "processing"
         /\ handler = "stop_recording"
         /\ Len(threads') = Len(threads) + 1
      \/ /\ state = "processing" /\ state' = "ready"
         /\ update_queue # <<>>
         /\ Head(update_queue).method = "enable_button"
         /\ update_queue' = Tail(update_queue)

\* C7: every step that changes state is one of the three transitions.
C7_StateTransitions == [][C7_Transition]_vars

C7_Witness ==
    /\ program = "app"
    /\ state = "recording"
    /\ Len(threads) = 1
    /\ InLog(1, "after_enable_button")

(***************************************************************************)
(* C8 (program "script").  A Stop click while audio_frames                 *)
(* is empty leaves the program Ready: Start enabled, Stop disabled, no     *)
(* transcription thread started.                                           *)
(* np.concatenate raises before the buttons are reconfigured: Start stays  *)
(* disabled and Stop enabled, on a closed stream.                          *)
(***************************************************************************)
C8_EmptyStop ==
    (/\ program = "script"
     /\ recording = "active"
     /\ recording' = "closed"
     /\ audio_data = <<>>)
    => /\ buttons'.start = "normal"
       /\ buttons'.stop = "disabled"
       /\ threads' = threads

\* C8: every Stop on an empty audio_frames leaves Start enabled, Stop
\* disabled and starts no thread.
C8_ScriptEmptyStopLeavesReady == [][C8_EmptyStop]_vars

(***************************************************************************)
(* C9 (both programs).  A start_recording call in which creating or        *)
(* starting the stream raises leaves the program Ready: in the app         *)
(* state is "ready" and the toggle button still accepts a click; in        *)
(* the script Start is enabled, Stop is disabled and the status label      *)
(* does not show "Recording...".                                           *)
(* the script sets the label before it creates the stream.                 *)
(***************************************************************************)
C9_FailedStart ==
    (streams' = streams + 1 /\ recording' # "active") =>
      IF program = "app"
      THEN /\ state' = "ready"
           /\ buttons'.toggle.state = "normal"
      ELSE /\ buttons'.start = "normal"
           /\ buttons'.stop = "disabled"
           /\ status_label' # "Recording..."

\* C9: every start_recording whose stream does not start leaves the
\* program Ready.
C9_FailedStartLeavesReady == [][C9_FailedStart]_vars

(***************************************************************************)
(* C10 (both programs).  Within one cycle the audio file is written before *)
(* the transcription call starts, the call has returned before either      *)
(* ledger append starts (its load), and both appends are complete before   *)
(* the cycle's update_cost_display is enqueued or scheduled.               *)
(***************************************************************************)
C10_CycleOrder ==
    \A i \in Workers :
      LET log == threads[i].log
      IN  /\ InLog(i, "api_call") => Precedes(log, "audio_written", "api_call")
          /\ InLog(i, "history_load") =>
                Precedes(log, "api_returned", "history_load")
          /\ InLog(i, "transactions_load") =>
                Precedes(log, "api_returned", "transactions_load")
          /\ InLog(i, "update_cost_display") =>
                /\ Precedes(log, "history_written", "update_cost_display")
                /\ Precedes(log, "transactions_written",
                            "update_cost_display")

\* a cycle of the class ran to its end: its worker wrote the audio file,
\* called, appended to both stores and enqueued the refreshes
C10_Witness ==
    /\ program = "app"
    /\ \E i \in Workers :
          /\ threads[i].pc = "done"
          /\ InLog(i, "audio_written")
          /\ InLog(i, "api_returned")
          /\ InLog(i, "update_cost_display")

(***************************************************************************)
(* C11 (program "app").  The input stream is held only during Recording:   *)
(* between handlers, a stream created by start_recording and not closed    *)
(* exists only in state "recording".                                       *)
(* When recording.start() raises, start_recording leaves the stream it     *)
(* created open and state "ready".                                         *)
(***************************************************************************)
C11_StreamHeldOnlyRecording ==
    (program = "app" /\ TkIdle /\ OpenStreams > 0) => state = "recording"

(***************************************************************************)
(* C12 (both programs).  The transcription box is rewritten only after a   *)
(* remote call has returned text: a cycle whose call raised schedules no   *)
(* rewrite of the box, and every step that changes the box runs an item    *)
(* that a worker scheduled after its call returned, showing that worker's  *)
(* text (the script rewrites in two callbacks, delete then insert).        *)
(***************************************************************************)
BoxMethods == {"update_transcription", "box_delete", "box_insert"}

C12_FailedCallKeepsBox ==
    \A i \in Workers :
      InLog(i, "api_raised") =>
        \A m \in BoxMethods : ~InLog(i, m)

C12_BoxStep ==
    transcription_box' # transcription_box =>
      /\ update_queue # <<>>
      /\ Head(update_queue).method \in BoxMethods
      /\ update_queue' = Tail(update_queue)
      /\ \E i \in Workers :
            /\ InLog(i, "api_returned")
            /\ InLog(i, Head(update_queue).method)
            /\ IF program = "app"
               THEN transcription_box' = threads[i].text
               ELSE \/ transcription_box' = <<>>
                    \/ transcription_box' =
                          transcription_box \o threads[i].text

SampleMinutes(wav) == <<Len(wav), SAMPLE_RATE * 60>>

\* C13: the stored durations are sample counts over SAMPLE_RATE and 60.
C13_DurationIsSampleCount ==
    /\ \A i \in Workers :
          (InLog(i, "history_written") \/ InLog(i, "transactions_written"))
          => RatEq(threads[i].duration, SampleMinutes(threads[i].audio))
    /\ \A k \in NewEntries(history_file) :
          \E i \in Workers :
            /\ InLog(i, "history_written")
            /\ Load(history_file)[k].duration = threads[i].duration
    /\ \A k \in 1..Len(Load(transactions_file)) :
          \E i \in Workers :
            /\ InLog(i, "transactions_written")
            /\ Load(transactions_file)[k].duration = threads[i].duration

\* the same, of the class AudioRecorderApp alone
C13_AppDurationIsSampleCount ==
    program = "app" => C13_DurationIsSampleCount

(***************************************************************************)
(* C14 (both programs).  A cycle issues at most one remote call and a      *)
(* failed call is not issued again: the number of calls (api_call_count in *)
(* the class) never exceeds the number of accepted stops.                  *)
(***************************************************************************)
\* the remote calls started so far, by all cycles
CallsIssued == {i \in Workers : InLog(i, "api_call")}

\* C14: each cycle starts at most one call, a cycle whose call raised is in
\* its except branch or finished, and the calls (in the class also its
\* counter) are no more than the accepted stops.
C14_NoRetry ==
    /\ \A i \in Workers :
          /\ Count(threads[i].log, "api_call") <= 1
          /\ InLog(i, "api_raised") => threads[i].pc \in {"except", "done"}
    /\ Cardinality(CallsIssued) <= stops
    /\ program = "app" => api_call_count <= stops

\* the call of the first of two cycles raised, and both cycles have ended
C14_Witness ==
    /\ Len(threads) = 2
    /\ LiveWorkers = {}
    /\ InLog(1, "api_raised")
    /\ Cardinality(CallsIssued) = 2
    /\ stops = 2

(***************************************************************************)
(* C15 (both programs).  Every transaction entry has cost = duration *     *)
(* COST_PER_MINUTE; a refresh of the totals shows the sums of duration and *)
(* of cost over the entries the store holds at that moment; so the totals  *)
(* of the store, and the totals shown, satisfy total_cost =                *)
(* COST_PER_MINUTE * total_time.                                           *)
(***************************************************************************)
\* The durations the programs store are whole numbers of parts of a
\* minute (samples in the class, clock advances of TickMs milliseconds in
\* the script), and the costs whole numbers of cost parts, a cost part being
\* the cost of one part.
MinuteParts ==
    IF program = "app" THEN SAMPLE_RATE * 60 ELSE (60 * 1000) \div TickMs

CostParts == (MinuteParts \div COST_PER_MINUTE_MILLI) * 1000

\* the number of 1/unit-ths that the rational q is
PartsOf(q, unit) == Reduce(q)[1] * (unit \div Reduce(q)[2])

\* one element for every part of every entry's field: as many elements as
\* the sum of the field over the entries has parts
AllParts(es, field, unit) ==
    UNION {{<<k, u>> : u \in 1..PartsOf(es[k][field], unit)} :
             k \in 1..Len(es)}

C15_CostOfTime(totals) ==
    RatEq(totals.total_cost, RatMul(COST_PER_MINUTE, totals.total_time))

C15_Entries ==
    /\ \A k \in 1..Len(Load(transactions_file)) :
          RatEq(Load(transactions_file)[k].cost,
                RatMul(Load(transactions_file)[k].duration, COST_PER_MINUTE))
    /\ C15_CostOfTime(Totals(transactions_file))
    /\ C15_CostOfTime(cost_label)

C15_Refresh ==
    (/\ update_queue # <<>>
     /\ Head(update_queue).method = "update_cost_display"
     /\ update_queue' = Tail(update_queue)
     /\ ~LoadRaises(transactions_file))
    => LET es == Load(transactions_file)
       IN  /\ RatEq(cost_label'.total_time,
                    <<Cardinality(AllParts(es, "duration", MinuteParts)),
                      MinuteParts>>)
           /\ RatEq(cost_label'.total_cost,
                    <<Cardinality(AllParts(es, "cost", CostParts)),
                      CostParts>>)

C16_FailedLoad(i, pc, file, written) ==
    (/\ threads[i].pc = pc
     /\ threads'[i].pc # pc
     /\ file.kind = "malformed")
    => /\ threads'[i].pc = "except"
       /\ threads'[i].puts = 0
       /\ Count(threads'[i].log, written) = 0
       /\ Count(threads'[i].log, "show_error") = 0

\* the except branch stays the except branch, and its first put is the
\* show_error item
C16_ExceptBranch(i) ==
    (threads[i].pc = "except" /\ threads'[i] # threads[i])
    => /\ threads'[i].pc \in {"except", "done"}
       /\ Len(update_queue') = Len(update_queue) + 1
       /\ threads[i].puts = 0 =>
             /\ update_queue'[Len(update_queue')].method = "show_error"
             /\ Count(threads'[i].log, "show_error") = 1
       /\ UNCHANGED <<history_file, transactions_file>>

C16_Published ==
    program = "app" =>
      \A i \in Workers :
        /\ C16_FailedLoad(i, "history_load", history_file,
                          "history_written")
        /\ C16_FailedLoad(i, "transactions_load", transactions_file,
                          "transactions_written")
        /\ C16_ExceptBranch(i)

\* a malformed file changes only by the json.dump of the save that opened it
C16_DumpOf(pc) ==
    \E i \in Workers :
       /\ threads[i].pc = pc
       /\ threads'[i].pc # pc
       /\ Cardinality(LiveWorkers) = 1

C16_Kept ==
    program = "app" =>
      /\ (history_file.kind = "malformed" /\ history_file' # history_file)
           => C16_DumpOf("history_write")
      /\ (transactions_file.kind = "malformed"
            /\ transactions_file' # transactions_file)
           => C16_DumpOf("transactions_write")

\* C16: a save that finds its store malformed ends without writing and is
\* published as an error, and a malformed store is not rewritten: only the
\* save that emptied a file writes into it.
C16_MalformedStoreKept == [][C16_Published /\ C16_Kept]_vars

\* a cycle appended to the history and ended at the load of the
\* transactions file, which was malformed when the program started and is
\* as it was; the error was shown
C16_Witness ==
    /\ program = "app"
    /\ Len(Load(history_file)) = 1
    /\ transactions_file = Malformed
    /\ Len(threads) = 1
    /\ threads[1].pc = "done"
    /\ InLog(1, "history_written")
    /\ InLog(1, "transactions_load")
    /\ ~InLog(1, "transactions_written")
    /\ Count(threads[1].log, "show_error") = 1
    /\ status_label = "Transcription failed"

(***************************************************************************)
(* C17 (both programs).  update_history_display renders every entry of the *)
(* history store, the most recent first; an entry without a duration is    *)
(* rendered with "N/A" and the entries after it are rendered too.          *)
(***************************************************************************)
C17_Render ==
    (/\ update_queue # <<>>
     /\ Head(update_queue).method = "update_history_display"
     /\ update_queue' = Tail(update_queue)
     /\ ~LoadRaises(history_file))
    => LET es == Load(history_file)
           n == Len(es)
       IN  /\ Len(history_box') = n
           /\ \A k \in 1..n :
                 LET e == es[n - k + 1]
                     line == history_box'[k]
                 IN  /\ line.timestamp = e.timestamp
                     /\ line.transcription = e.transcription
                     /\ line.duration_str =
                           IF "duration" \in DOMAIN e
                           THEN <<"min", e.duration>> ELSE <<"N/A">>

\* C17: every refresh of the history box shows all entries, newest first,
\* an entry without duration as "N/A".
C17_HistoryNewestFirst == [][C17_Render]_vars

\* the box shows a new entry above the two entries without duration of the
\* initial store, the later of the two first
C17_Witness ==
    /\ Len(history_box) = 3
    /\ history_box[1].duration_str # <<"N/A">>
    /\ history_box[2].duration_str = <<"N/A">>
    /\ history_box[2].transcription = LegacyEntry(2).transcription
    /\ history_box[3].duration_str = <<"N/A">>
    /\ history_box[3].transcription = LegacyEntry(1).transcription

(***************************************************************************)
(* C18 (program "app").  A toggle_recording call less than click_cooldown  *)
(* after the last call that passed the cooldown test changes nothing, and  *)
(* a call that passes the test in state "processing" changes only          *)
(* last_click_time.  On the steps of the program: last_click_time and the  *)
(* stream change, the buffer is emptied and start_recording or             *)
(* stop_recording is entered only in a call at least click_cooldown after  *)
(* last_click_time; the state leaves "ready" or "recording" and a worker   *)
(* thread is started only at the end of a start_recording or               *)
(* stop_recording so entered; and a step that sets last_click_time in      *)
(* state "processing" leaves everything else as it is.                     *)
(***************************************************************************)
C18_InCall == handler \in {"start_recording", "stop_recording"}

C18_Step ==
    program = "app" =>
      /\ last_click_time' # last_click_time
           => /\ now - last_click_time >= click_cooldown
              /\ last_click_time' = now
      /\ (\/ streams' # streams
          \/ recording' # recording
          \/ unclosed' # unclosed
          \/ Len(audio_data') < Len(audio_data)
          \/ (handler' # handler
                /\ handler' \in {"start_recording", "stop_recording"}))
           => /\ now - last_click_time >= click_cooldown
              /\ last_click_time' = now
              /\ TkIdle
      /\ (\/ Len(threads') # Len(threads)
          \/ stops' # stops
          \/ (state' # state /\ state' # "ready"))
           => /\ C18_InCall
              /\ handler' = "none"
              /\ last_click_time' = last_click_time
      /\ (last_click_time' # last_click_time /\ state = "processing")
           => UNCHANGED <<program, init_pc, handler, scheduled, writing,
                          stop_duration, now, state, client, recording,
                          streams, unclosed, audio_data, recording_start_time,
                          update_queue, inLoop, timers, threads, audio_file,
                          history_file, transactions_file, api_call_count,
                          buttons, status_label, transcription_box,
                          history_box, cost_label, stops>>

\* C18: a click inside the cooldown changes nothing; a click that passes it
\* in state "processing" changes last_click_time only.
C18_CooldownAndProcessing == [][C18_Step]_vars

C18_Witness ==
    /\ program = "app"
    /\ state = "processing"
    /\ streams = 1
    /\ stops = 1
    /\ last_click_time = StartOfTime + 2 * click_cooldown

(***************************************************************************)
(* C19 (both programs).  start_recording empties the capture buffer; the   *)
(* buffer and every encoded waveform hold blocks of one stream only, in    *)
(* the order the callback delivered them; and the buffer is not modified   *)
(* while a cycle is being encoded and transcribed (a worker is live).      *)
(* In the script a new Start empties the buffer, and the callback fills    *)
(* it, while the transcribe_audio thread of the cycle before is running.   *)
(***************************************************************************)
WaveOfOneCycle(wav) ==
    wav # <<>> =>
      /\ \E c \in 1..streams : \A j \in 1..Len(wav) : wav[j][1] = c
      /\ wav[1][2] = 1
      /\ \A j \in 1..(Len(wav) - 1) :
            wav[j + 1][2] \in {wav[j][2], wav[j][2] + 1}

C19_Buffer ==
    /\ \A k \in 1..Len(audio_data) :
          audio_data[k].src = streams /\ audio_data[k].seq = k
    /\ \A i \in Workers : WaveOfOneCycle(threads[i].audio)
    /\ WaveOfOneCycle(audio_file.frames)
    /\ \A i, j \in Workers :
          (i # j /\ threads[i].audio # <<>> /\ threads[j].audio # <<>>)
          => threads[i].audio[1][1] # threads[j].audio[1][1]

C19_Step ==
    /\ streams' = streams + 1 => audio_data' = <<>>
    /\ LiveWorkers # {} => audio_data' = audio_data
    /\ \A i \in Workers :
          (threads[i].audio = <<>> /\ threads'[i].audio # <<>>)
          => threads'[i].audio = Concatenate(audio_data)
    /\ (Len(threads') > Len(threads)
          /\ threads'[Len(threads')].audio # <<>>)
          => threads'[Len(threads')].audio = Concatenate(audio_data)

\* C19: the capture buffer is emptied at each start, encoded as delivered,
\* and left alone while its cycle is encoded and transcribed.
C19_CaptureBuffer == []C19_Buffer /\ [][C19_Step]_vars

\* the same, of the class AudioRecorderApp alone
C19_AppCaptureBuffer ==
    [](program = "app" => C19_Buffer)
    /\ [][program = "app" => C19_Step]_vars

(***************************************************************************)
(* C20 (program "script").  The audio file a transcribe_audio thread       *)
(* uploads is the waveform written by the stop_recording call that started *)
(* the thread: AUDIO_FILE is not rewritten between that write and the end  *)
(* of the upload, and the text of the thread is the text of that waveform. *)
(* A second Start and Stop rewrite AUDIO_FILE before the first thread has  *)
(* opened it.                                                              *)
(***************************************************************************)
C20_UploadsOwnWaveform ==
    program = "script" =>
      \A i \in Workers :
        /\ threads[i].pc = "transcribe"
             => audio_file = AudioFile(threads[i].audio)
        /\ InLog(i, "api_returned")
             => threads[i].text = Transcribe(threads[i].audio)

(***************************************************************************)
(* C21 (src/old_tkinter_transcriber.py, update_loop): update_queue is a    *)
(* FIFO drained by update_loop alone, and a raising handler neither stops  *)
(* the loop nor loses the items behind it.                                 *)
(***************************************************************************)
\* what running the handler of a taken item does to the widgets and state
C21_Executed(item) ==
    LET m == item.method
        a == item.args
    IN  /\ m = "update_status" => status_label' = a[1]
        /\ m = "update_transcription" => transcription_box' = a[1]
        /\ m = "update_button"
             => buttons'.toggle = [text |-> a[1], style |-> a[2],
                                   state |-> a[3]]
        /\ m = "enable_button"
             => state' = "ready" /\ buttons'.toggle.state = "normal"
        /\ m = "update_history_display"
             => history_box' = RenderHistory(Load(history_file))
        /\ m = "update_cost_display"
             => cost_label' = Totals(transactions_file)

\* a step takes the head item: the rest of the queue keeps its order, the
\* step is update_loop's, and the item's handler ran unless it raised
C21_Take ==
    /\ update_queue # <<>>
    /\ update_queue' = Tail(update_queue)
    /\ inLoop \/ scheduled
    /\ \/ HandlerRaises(Head(update_queue))
       \/ C21_Executed(Head(update_queue))

\* a step puts items: they go behind the ones already queued
C21_Put ==
    /\ Len(update_queue') > Len(update_queue)
    /\ SubSeq(update_queue', 1, Len(update_queue)) = update_queue

\* the queue changes only by a put at its tail or a take at its head, so no
\* item is taken twice, dropped, or overtaken
C21_Fifo ==
    (program = "app" /\ update_queue' # update_queue)
        => (C21_Put \/ C21_Take)

\* after every step update_loop is still due to run, whether it ended on an
\* empty queue or on a raising handler
C21_Rescheduled == program = "app" => (inLoop \/ scheduled)

\* a queued head item is eventually taken: the queue is empty again and
\* again, or update_loop takes items again and again
C21_Progress ==
    \/ []<>(update_queue = <<>>)
    \/ []<><<C21_Take>>_vars

\* the enable_button item of a failed transcription is executed: the
\* application leaves "processing" whatever the items before it did
C21_EnableExecuted ==
    (program = "app" /\ state = "processing" /\ Pending("enable_button")
        /\ \E i \in Workers : InLog(i, "show_error"))
      ~> (state = "ready")

\* C21 as it is stated: every item put on update_queue is eventually taken
\* and executed by update_loop, exactly once and in FIFO order; update_loop
\* reschedules itself after every tick even when a handler raises; the
\* enable_button item of the failure branch of transcribe_audio is executed
\* even when the handler of an earlier item raised.  The handler of a
\* show_error item does not return while its dialog is open: the items
\* behind it, enable_button among them, wait for the user.
C21_WithoutUser ==
    /\ []C21_Rescheduled
    /\ [][C21_Fifo]_vars
    /\ C21_Progress
    /\ C21_EnableExecuted

\* C21, with the assumption it needs: update_queue is a FIFO that only
\* update_loop takes from, update_loop is due again after every tick, also
\* one that a raising handler ended, and, provided the user closes every
\* error dialog, every queued item is eventually taken and the
\* enable_button item of a failed transcription is executed.
C21_QueueDrained ==
    /\ []C21_Rescheduled
    /\ [][C21_Fifo]_vars
    /\ UserClosesDialogs => (C21_Progress /\ C21_EnableExecuted)

\* The transactions file was malformed when the program started and no
\* thread wrote it (the only cycle failed in its remote call).  initialize
\* has put its items and the queue is empty, so its update_cost_display
\* item was taken and its handler raised.  The label shows the status of
\* the failed cycle, so the "Ready" item of initialize, put after
\* update_cost_display, was taken before the failure's status item: the
\* raising item was ahead of the failure's enable_button, which was executed
\* all the same.
C21_Witness ==
    /\ program = "app"
    /\ init_pc > Len(InitializeItems)
    /\ transactions_file = Malformed
    /\ Len(threads) = 1
    /\ threads[1].pc = "done"
    /\ InLog(1, "api_raised")
    /\ InLog(1, "enable_button")
    /\ update_queue = <<>>
    /\ status_label = "Transcription failed"
    /\ state = "ready"
    /\ buttons.toggle.state = "normal"
    /\ inLoop \/ scheduled

====
